---- MODULE Spec2Model ----
(***************************************************************************)
(* Model of the AI browser shell: the chat client (LLMService), its IPC    *)
(* handlers in the main process and the renderer's chat/extract handlers.  *)
(*                                                                         *)
(* Texts are sequences of one-character strings.  A long literal of the    *)
(* source (a prompt template, an error message) is one element of such a   *)
(* sequence, written as the literal's text.                                *)
(***************************************************************************)
EXTENDS Integers, Sequences, FiniteSets, TLC

(***************************************************************************)
(* Bounds of the model.                                                    *)
(***************************************************************************)
\* number of sendMessage calls issued in one behaviour
MaxSends == 2
\* largest MAX_RETRIES value set in the environment
MaxRetriesEnv == 4
\* number of extract-content requests that may be in flight together
MaxExtracting == 1
\* number of extractWebContent requests of a renderer that sends no message
MaxOverlap == 2
\* length of the texts the text functions are applied to
MaxTextLen == 4
\* length of the transcripts a prompt is built from
MaxHistory == 7
\* number of tags and texts a page is made of
MaxPieces == 5
\* number of entities and characters a text with entities is made of
MaxEntities == 3

(***************************************************************************)
(* Program constants.                                                      *)
(***************************************************************************)
\* process.env.MAX_RETRIES || '3'
DefaultMaxRetries == 3
\* process.env.REQUEST_TIMEOUT || '30000'
DefaultRequestTimeout == 30000
\* process.env.CONTEXT_MAX_CHARS || '5000'
DefaultContextMaxChars == 5000
\* base of the backoff wait, in milliseconds
BackoffBaseMs == 1000

(***************************************************************************)
(* Text helpers.                                                           *)
(***************************************************************************)
NL == "\n"
Bullet == "bullet"
Star == "*"

\* String.prototype.trim strips white space at both ends
IsSpace(ch) == ch \in {" ", NL, "\t", "\r"}

RECURSIVE TrimStart(_)
TrimStart(s) ==
    IF s # <<>> /\ IsSpace(Head(s)) THEN TrimStart(Tail(s)) ELSE s

RECURSIVE TrimEnd(_)
TrimEnd(s) ==
    IF s # <<>> /\ IsSpace(s[Len(s)]) THEN TrimEnd(SubSeq(s, 1, Len(s) - 1)) ELSE s

Trim(s) == TrimEnd(TrimStart(s))

\* s.substring(0, n)
Substring0(s, n) == SubSeq(s, 1, IF n < Len(s) THEN n ELSE Len(s))

\* the text that starts at position i of s
From(s, i) == SubSeq(s, i, Len(s))

\* whether p occurs in s at position i
At(s, i, p) == i + Len(p) - 1 <= Len(s) /\ SubSeq(s, i, i + Len(p) - 1) = p

\* concatenation of a sequence of texts
RECURSIVE Concat(_)
Concat(ss) == IF ss = <<>> THEN <<>> ELSE Head(ss) \o Concat(Tail(ss))

Digits == {"0", "1", "2", "3", "4", "5", "6", "7", "8", "9"}

UpperCase ==
    {"A", "B", "C", "D", "E", "F", "G", "H", "I", "J", "K", "L", "M",
     "N", "O", "P", "Q", "R", "S", "T", "U", "V", "W", "X", "Y", "Z"}

\* multiline ^ : position i of s starts a line
LineStartAt(s, i) == i = 1 \/ (i <= Len(s) + 1 /\ s[i - 1] \in {NL, "\r"})

\* length of the longest run of characters of class cls that starts at position i
RECURSIVE RunLen(_, _, _)
RunLen(s, i, cls) ==
    IF i <= Len(s) /\ s[i] \in cls THEN 1 + RunLen(s, i + 1, cls) ELSE 0

\* length of the longest run of characters other than ch that starts at position i
RECURSIVE RunLenNot(_, _, _)
RunLenNot(s, i, ch) ==
    IF i <= Len(s) /\ s[i] # ch THEN 1 + RunLenNot(s, i + 1, ch) ELSE 0

(***************************************************************************)
(* LLMService.formatResponse, one operator per replace call.               *)
(***************************************************************************)
\* formatted.replace(/\*\*\*/g, '')
RECURSIVE RemoveTripleStars(_)
RemoveTripleStars(s) ==
    IF s = <<>> THEN <<>>
    ELSE IF At(s, 1, <<Star, Star, Star>>) THEN RemoveTripleStars(From(s, 4))
    ELSE <<Head(s)>> \o RemoveTripleStars(Tail(s))

\* formatted.replace(/\*\*([^*]+)\*\*/g, '$1') for k = 2 and
\* formatted.replace(/\*([^*]+)\*/g, '$1') for k = 1
RECURSIVE RemoveEmphasis(_, _)
RemoveEmphasis(s, k) ==
    LET mark == [j \in 1..k |-> Star]
        run  == RunLenNot(s, k + 1, Star)
    IN  IF s = <<>> THEN <<>>
        ELSE IF At(s, 1, mark) /\ run >= 1 /\ At(s, k + 1 + run, mark)
             THEN SubSeq(s, k + 1, k + run) \o RemoveEmphasis(From(s, 2 * k + run + 1), k)
             ELSE <<Head(s)>> \o RemoveEmphasis(Tail(s), k)

\* formatted.replace(/^\* /gm, bullet) for ch = "*" and
\* formatted.replace(/^- /gm, bullet) for ch = "-"
ReplaceBulletMarker(s, ch) ==
    [i \in 1..Len(s) |->
        IF s[i] = ch /\ LineStartAt(s, i) /\ i < Len(s) /\ s[i + 1] = " "
        THEN Bullet ELSE s[i]]

\* formatted.replace(/^\d+\.\s+/gm, (match) => `${num}. `), scanning from position i
RECURSIVE NormalizeNumbered(_, _)
NormalizeNumbered(s, i) ==
    LET d == RunLen(s, i, Digits)
        w == RunLen(s, i + d + 1, {" ", NL, "\t", "\r"})
    IN  IF i > Len(s) THEN <<>>
        ELSE IF LineStartAt(s, i) /\ d >= 1 /\ i + d <= Len(s) /\ s[i + d] = "." /\ w >= 1
             THEN SubSeq(s, i, i + d - 1) \o <<".", " ">> \o NormalizeNumbered(s, i + d + 1 + w)
             ELSE <<s[i]>> \o NormalizeNumbered(s, i + 1)

\* a text whose line breaks are left as they are
CollapseLineBreaks_Skipped(s) == s

\* formatted.replace(/\n{3,}/g, '\n\n')
RECURSIVE CollapseLineBreaks(_)
CollapseLineBreaks(s) ==
    LET n == RunLen(s, 1, {NL})
    IN  IF s = <<>> THEN <<>>
        ELSE IF n >= 3 THEN <<NL, NL>> \o CollapseLineBreaks(From(s, n + 1))
        ELSE IF n >= 1 THEN SubSeq(s, 1, n) \o CollapseLineBreaks(From(s, n + 1))
        ELSE <<Head(s)>> \o CollapseLineBreaks(Tail(s))

\* formatted.replace(/([.!?])\n(?=[A-Z bullet \d])/g, '$1\n\n')
SpaceAfterSections(s) ==
    Concat([i \in 1..Len(s) |->
        IF /\ s[i] = NL
           /\ i > 1 /\ s[i - 1] \in {".", "!", "?"}
           /\ i < Len(s) /\ s[i + 1] \in UpperCase \cup {Bullet} \cup Digits
        THEN <<NL, NL>> ELSE <<s[i]>>])

formatResponse(text) ==
    LET f1 == RemoveTripleStars(text)
        f2 == RemoveEmphasis(f1, 2)
        f3 == RemoveEmphasis(f2, 1)
        f4 == ReplaceBulletMarker(f3, Star)
        f5 == ReplaceBulletMarker(f4, "-")
        f6 == NormalizeNumbered(f5, 1)
        f7 == CollapseLineBreaks(f6)
        f8 == SpaceAfterSections(f7)
    IN  Trim(f8)

\* the marker truncateContent appends
TruncationMarker == <<NL, NL, "[Content truncated...]">>

\* a truncateContent that cuts a text of exactly maxChars characters
truncateContent_OffByOne(content, maxChars) ==
    IF Len(content) < maxChars THEN content
    ELSE Substring0(content, maxChars) \o TruncationMarker

\* LLMService.truncateContent
truncateContent(content, maxChars) ==
    IF Len(content) <= maxChars THEN content
    ELSE Substring0(content, maxChars) \o <<NL, NL, "[Content truncated...]">>

(***************************************************************************)
(* WebContentExtractor: extractTextFromHTML and decodeHTMLEntities.        *)
(***************************************************************************)
LowerCase ==
    {"a", "b", "c", "d", "e", "f", "g", "h", "i", "j", "k", "l", "m",
     "n", "o", "p", "q", "r", "s", "t", "u", "v", "w", "x", "y", "z"}

UpperSeq == <<"A", "B", "C", "D", "E", "F", "G", "H", "I", "J", "K", "L", "M", "N", "O", "P", "Q", "R", "S", "T", "U", "V", "W", "X", "Y", "Z">>
LowerSeq == <<"a", "b", "c", "d", "e", "f", "g", "h", "i", "j", "k", "l", "m", "n", "o", "p", "q", "r", "s", "t", "u", "v", "w", "x", "y", "z">>

\* the lower-case form of one character (the i flag of a regular expression)
ToLowerChar(ch) ==
    IF ch \in UpperCase
    THEN LowerSeq[CHOOSE i \in 1..26 : UpperSeq[i] = ch]
    ELSE ch

ToLower(s) == [i \in 1..Len(s) |-> ToLowerChar(s[i])]

\* \w of a regular expression
IsWordChar(ch) == ch \in UpperCase \cup LowerCase \cup Digits \cup {"_"}

\* first position j >= i at which p occurs in s, 0 when there is none
RECURSIVE IndexFrom(_, _, _)
IndexFrom(s, i, p) ==
    IF i + Len(p) - 1 > Len(s) THEN 0
    ELSE IF At(s, i, p) THEN i
    ELSE IndexFrom(s, i + 1, p)

\* a block removal that compares the tag names as they are written
RECURSIVE RemoveBlocks_CaseSensitive(_, _)
RemoveBlocks_CaseSensitive(s, name) ==
    LET open  == <<"<">> \o name
        close == <<"<", "/">> \o name \o <<">">>
        after == Len(open) + 1
        j     == IndexFrom(s, after, close)
    IN  IF s = <<>> THEN <<>>
        ELSE IF /\ At(s, 1, open)
                /\ after <= Len(s) /\ ~IsWordChar(s[after])
                /\ j > 0
             THEN RemoveBlocks_CaseSensitive(From(s, j + Len(close)), name)
             ELSE <<Head(s)>> \o RemoveBlocks_CaseSensitive(Tail(s), name)

\* html.replace(/<script\b[^<]*(?:(?!<\/script>)<[^<]*)*<\/script>/gi, '') for
\* name = script, and the same expression with style: a block opens with
\* "<name" at a word boundary and closes at the first "</name>" after it
RECURSIVE RemoveBlocks(_, _)
RemoveBlocks(s, name) ==
    LET open  == <<"<">> \o name
        close == <<"<", "/">> \o name \o <<">">>
        low   == ToLower(s)
        after == Len(open) + 1
        j     == IndexFrom(low, after, close)
    IN  IF s = <<>> THEN <<>>
        ELSE IF /\ At(low, 1, open)
                /\ after <= Len(s) /\ ~IsWordChar(s[after])
                /\ j > 0
             THEN RemoveBlocks(From(s, j + Len(close)), name)
             ELSE <<Head(s)>> \o RemoveBlocks(Tail(s), name)

\* text.replace(/<[^>]+>/g, ' ')
RECURSIVE RemoveTags(_)
RemoveTags(s) ==
    LET run == RunLenNot(s, 2, ">")
    IN  IF s = <<>> THEN <<>>
        ELSE IF Head(s) = "<" /\ run >= 1 /\ run + 2 <= Len(s)
             THEN <<" ">> \o RemoveTags(From(s, run + 3))
             ELSE <<Head(s)>> \o RemoveTags(Tail(s))

\* the entities table of decodeHTMLEntities
EntityNames ==
    {<<"&", "a", "m", "p", ";">>, <<"&", "l", "t", ";">>, <<"&", "g", "t", ";">>, <<"&", "q", "u", "o", "t", ";">>, <<"&", "#", "3", "9", ";">>, <<"&", "n", "b", "s", "p", ";">>}

EntityValue(e) ==
    CASE e = <<"&", "a", "m", "p", ";">>  -> <<"&">>
      [] e = <<"&", "l", "t", ";">>   -> <<"<">>
      [] e = <<"&", "g", "t", ";">>   -> <<">">>
      [] e = <<"&", "q", "u", "o", "t", ";">> -> <<"\"">>
      [] e = <<"&", "#", "3", "9", ";">> -> <<"'">>
      [] e = <<"&", "n", "b", "s", "p", ";">> -> <<" ">>
      [] OTHER -> e

\* a decoding that goes on from the character it has just produced
RECURSIVE decodeHTMLEntities_Rescans(_)
decodeHTMLEntities_Rescans(s) ==
    LET run    == RunLenNot(s, 2, ";")
        entity == SubSeq(s, 1, run + 2)
    IN  IF s = <<>> THEN <<>>
        ELSE IF Head(s) = "&" /\ run >= 1 /\ run + 2 <= Len(s)
             THEN IF entity \in EntityNames
                  THEN decodeHTMLEntities_Rescans(EntityValue(entity) \o From(s, run + 3))
                  ELSE entity \o decodeHTMLEntities_Rescans(From(s, run + 3))
             ELSE <<Head(s)>> \o decodeHTMLEntities_Rescans(Tail(s))

\* text.replace(/&[^;]+;/g, (entity) => entities[entity] || entity)
RECURSIVE decodeHTMLEntities(_)
decodeHTMLEntities(s) ==
    LET run    == RunLenNot(s, 2, ";")
        entity == SubSeq(s, 1, run + 2)
    IN  IF s = <<>> THEN <<>>
        ELSE IF Head(s) = "&" /\ run >= 1 /\ run + 2 <= Len(s)
             THEN EntityValue(entity) \o decodeHTMLEntities(From(s, run + 3))
             ELSE <<Head(s)>> \o decodeHTMLEntities(Tail(s))

\* a text whose white space is left as it is
CollapseWhitespace_Skipped(s) == s

\* text.replace(/\s+/g, ' ')
RECURSIVE CollapseWhitespace(_)
CollapseWhitespace(s) ==
    LET n == RunLen(s, 1, {" ", NL, "\t", "\r"})
    IN  IF s = <<>> THEN <<>>
        ELSE IF n >= 1 THEN <<" ">> \o CollapseWhitespace(From(s, n + 1))
        ELSE <<Head(s)>> \o CollapseWhitespace(Tail(s))

extractTextFromHTML(html) ==
    LET t1 == RemoveBlocks(html, <<"s", "c", "r", "i", "p", "t">>)
        t2 == RemoveBlocks(t1, <<"s", "t", "y", "l", "e">>)
        t3 == RemoveTags(t2)
        t4 == decodeHTMLEntities(t3)
    IN  Trim(CollapseWhitespace(t4))

(***************************************************************************)
(* AIApp.formatMessageToHTML.  A tag the formatter writes is one element   *)
(* of the text; the characters of the message are elements of their own.   *)
(***************************************************************************)
DivOpen == "<div>"
DivClose == "</div>"
LineBreakDiv == "<div class=\"line-break\"></div>"
BulletDivOpen == "<div class=\"bullet-point\">"
NumberedDivOpen == "<div class=\"numbered-item\">"
HeaderDivOpen == "<div class=\"section-header\"><strong>"
HeaderDivClose == "</strong></div>"
StrongOpen == "<strong>"
StrongClose == "</strong>"
EmOpen == "<em>"
EmClose == "</em>"

\* the tags formatMessageToHTML writes
FormatterTags ==
    {DivOpen, DivClose, LineBreakDiv, BulletDivOpen, NumberedDivOpen, HeaderDivOpen,
     HeaderDivClose, StrongOpen, StrongClose, EmOpen, EmClose}

\* line.length < 100 of the header test
HeaderMaxLen == 100

\* text.replace(/ch/g, by) for one character ch
ReplaceChar(s, ch, by) ==
    Concat([i \in 1..Len(s) |-> IF s[i] = ch THEN by ELSE <<s[i]>>])

\* a formatter that does not escape the message
EscapeHtml_Forgotten(text) == text

\* text.replace(/&/g, '&amp;').replace(/</g, '&lt;').replace(/>/g, '&gt;')
EscapeHtml(text) ==
    LET h1 == ReplaceChar(text, "&", <<"&", "a", "m", "p", ";">>)
        h2 == ReplaceChar(h1, "<", <<"&", "l", "t", ";">>)
    IN  ReplaceChar(h2, ">", <<"&", "g", "t", ";">>)

\* html.split('\n')
RECURSIVE SplitLines(_)
SplitLines(s) ==
    LET n == RunLenNot(s, 1, NL)
    IN  IF n = Len(s) THEN <<s>>
        ELSE <<SubSeq(s, 1, n)>> \o SplitLines(From(s, n + 2))

\* a character that . of a regular expression does not match
IsLineTerminator(ch) == ch \in {NL, "\r"}

HasLineTerminator(s) == \E i \in 1..Len(s) : IsLineTerminator(s[i])

\* the element pushed for a line that is not empty after trim()
FormatLine(line) ==
    LET bw   == RunLen(line, 2, {" ", NL, "\t", "\r"})
        d    == RunLen(line, 1, Digits)
        nw   == RunLen(line, d + 2, {" ", NL, "\t", "\r"})
        rest == From(line, d + 2 + nw)
    IN  IF Head(line) \in {Bullet, "-", Star} /\ bw >= 1
        THEN <<BulletDivOpen, Bullet, " ">> \o From(line, 2 + bw) \o <<DivClose>>
        ELSE IF d >= 1 /\ d < Len(line) /\ line[d + 1] = "." /\ nw >= 1
        THEN IF rest # <<>> /\ ~HasLineTerminator(rest)
             THEN <<NumberedDivOpen>> \o SubSeq(line, 1, d) \o <<".", " ">> \o rest
                      \o <<DivClose>>
             ELSE <<DivOpen>> \o line \o <<DivClose>>
        ELSE IF /\ Len(line) >= 2 /\ line[Len(line)] = ":"
                /\ ~HasLineTerminator(SubSeq(line, 1, Len(line) - 1))
                /\ Len(line) < HeaderMaxLen
        THEN <<HeaderDivOpen>> \o line \o <<HeaderDivClose>>
        ELSE <<DivOpen>> \o line \o <<DivClose>>

\* the loop over the lines from line i on, formatted being what was pushed
RECURSIVE FormatLines(_, _, _)
FormatLines(lines, i, formatted) ==
    IF i > Len(lines) THEN formatted
    ELSE LET line == Trim(lines[i])
         IN  IF line = <<>>
             THEN FormatLines(lines, i + 1,
                      IF i > 1 /\ formatted # <<>> THEN Append(formatted, <<LineBreakDiv>>)
                      ELSE formatted)
             ELSE FormatLines(lines, i + 1, Append(formatted, FormatLine(line)))

\* html.replace(/\*\*(.+?)\*\*/g, '<strong>$1</strong>') for k = 2 and
\* html.replace(/\*(.+?)\*/g, '<em>$1</em>') for k = 1
RECURSIVE WrapEmphasis(_, _, _, _)
WrapEmphasis(s, k, open, close) ==
    LET mark == [j \in 1..k |-> Star]
        q    == IndexFrom(s, k + 2, mark)
    IN  IF s = <<>> THEN <<>>
        ELSE IF At(s, 1, mark) /\ q > 0 /\ ~HasLineTerminator(SubSeq(s, k + 1, q - 1))
             THEN <<open>> \o SubSeq(s, k + 1, q - 1) \o <<close>>
                      \o WrapEmphasis(From(s, q + k), k, open, close)
             ELSE <<Head(s)>> \o WrapEmphasis(Tail(s), k, open, close)

formatMessageToHTML(text) ==
    LET html      == EscapeHtml(text)
        formatted == FormatLines(SplitLines(html), 1, <<>>)
        bold      == WrapEmphasis(Concat(formatted), 2, StrongOpen, StrongClose)
    IN  WrapEmphasis(bold, 1, EmOpen, EmClose)

(***************************************************************************)
(* Inputs: what the user types, what the pages hold, what the remote       *)
(* endpoint answers.                                                       *)
(***************************************************************************)
UserMessages == {<<"h", "i">>, <<"y", "o">>}

\* response.text() of a resolved generateContent call
RawReplies == {<<"o", "k">>, <<" ", "*", "n", "o", "*", NL>>, <<" ">>, <<>>}

Urls == {"https://a.example", "https://b.example"}

\* urlInput.value || 'https://vnexpress.net' at start-up
DefaultUrl == "https://a.example"

\* the body served for a URL
PageHtml(url) ==
    IF url = "https://a.example" THEN <<"<", "p", ">", "A", " ", "&", "a", "m", "p", ";", " ", "a", "<", "/", "p", ">">>
    ELSE <<"<", "s", "c", "r", "i", "p", "t", ">", "x", "<", "/", "s", "c", "r", "i", "p", "t", ">", "B">>

\* messages of the errors generateContent rejects with
ApiErrors ==
    {<<"API key not valid">>, <<"model not found">>, <<"billing not enabled">>,
     <<"quota exceeded">>, <<"Too Many Requests">>, <<"fetch failed">>,
     <<"internal error">>}

\* message of the error WebContentExtractor.extract throws on an axios error
FetchError == <<"Failed to fetch URL: ", "Network Error">>

\* errorMsg.includes(kw) for the lower-cased text of a message element
KeywordsOf(tok) ==
    CASE tok = "API key not valid"   -> {"api key"}
      [] tok = "model not found"     -> {"model not found"}
      [] tok = "billing not enabled" -> {"billing"}
      [] tok = "quota exceeded"      -> {"quota"}
      [] tok = "Too Many Requests"   -> {"too many requests"}
      [] tok = "fetch failed"        -> {"fetch"}
      [] tok = "Request timeout after " -> {"timeout"}
      [] OTHER -> {}

Includes(msg, kw) == \E i \in 1..Len(msg) : kw \in KeywordsOf(msg[i])

(***************************************************************************)
(* State.                                                                  *)
(***************************************************************************)
VARIABLES
    chatHistory,      \* LLMService.chatHistory
    websiteContext,   \* LLMService.websiteContext
    maxRetries,       \* LLMService.config.maxRetries
    calls,            \* the sendMessage calls: position, locals, record of attempts
    nextCall,         \* number of sendMessage calls started
    extracting,       \* the extract-content requests in flight in the main process
    last,             \* what the last step returned to its caller, NoOp if nothing
    webviewUrl,       \* AIApp.webview.getURL()
    isContentExtracted,  \* AIApp.isContentExtracted
    lastExtractedUrl,    \* AIApp.lastExtractedUrl
    extractingUrls,      \* AIApp.extractingUrls
    loading,          \* the calls whose 'Thinking...' element is in #chatMessages
    shown,            \* the handler of the last renderer step and the messages it appended
    lastRequested,    \* the last URL given to extractWebContent and how the request ended
    pendingLoad,      \* the URL of a handleLoadUrl no extraction has succeeded for, or ""
    extractedOk       \* the URL extracted last, "" after a handleLoadUrl or a failure

svcVars == <<chatHistory, websiteContext, maxRetries, calls, nextCall, extracting>>
mainVars == <<svcVars, last>>
uiVars == <<webviewUrl, isContentExtracted, lastExtractedUrl, extractingUrls,
            loading, shown, lastRequested, pendingLoad, extractedOk>>
vars == <<mainVars, uiVars>>

CallIds == 1..MaxSends

\* LLMService.config, read once in the constructor
contextMaxChars == DefaultContextMaxChars
requestTimeout == DefaultRequestTimeout
modelName == "gemini-pro"

NoCall ==
    [pc |-> "idle", userMessage |-> <<>>, messages |-> <<>>, attempt |-> 0,
     prompt |-> <<>>, events |-> <<>>, pre |-> <<>>, preCtx |-> <<>>,
     lastError |-> <<>>, stale |-> FALSE]

NoOp ==
    [op |-> "none", call |-> 0, ok |-> TRUE, value |-> <<>>, arg |-> <<>>,
     events |-> <<>>, lastError |-> <<>>]

\* a renderer step by a handler that appended msgs to #chatMessages
Shown(by, msgs) == [by |-> by, msgs |-> msgs]

\* a step that is not a step of a renderer handler
Quiet == Shown("none", <<>>)

InFlight(c) == calls[c].pc \in {"awaiting", "backoff"}

\* parseInt(process.env.MAX_RETRIES || '3', 10): unset, or set to a number
RetryChoices == {0, 1, DefaultMaxRetries, MaxRetriesEnv}

Init ==
    /\ chatHistory = <<>>
    /\ websiteContext = <<>>
    /\ maxRetries \in RetryChoices
    /\ calls = [c \in CallIds |-> NoCall]
    /\ nextCall = 0
    /\ extracting = <<>>
    /\ last = NoOp
    /\ webviewUrl = DefaultUrl
    /\ isContentExtracted = FALSE
    /\ lastExtractedUrl = ""
    /\ extractingUrls = {}
    /\ loading = {}
    /\ shown = Quiet
    /\ lastRequested = [url |-> "", outcome |-> "none"]
    /\ pendingLoad = ""
    /\ extractedOk = ""

(***************************************************************************)
(* LLMService: prompt construction.                                        *)
(***************************************************************************)
\* a system prompt that embeds the whole context
buildSystemPrompt_Untruncated(context) ==
    <<"You are a helpful AI assistant. [...] WEBSITE CONTENT:", NL>>
    \o context
    \o <<NL, NL, "Please provide clear, accurate answers based on this content.">>

buildSystemPrompt(context) ==
    <<"You are a helpful AI assistant. [...] WEBSITE CONTENT:", NL>>
    \o truncateContent(context, contextMaxChars)
    \o <<NL, NL, "Please provide clear, accurate answers based on this content.">>

\* the messages array sendMessage hands to callAPI
BuildMessages(context, history) ==
    (IF context # <<>>
     THEN <<[role |-> "system", content |-> buildSystemPrompt(context), by |-> 0,
              stale |-> FALSE]>>
     ELSE <<>>)
    \o history

buildPrompt(messages) ==
    LET sys  == SelectSeq(messages, LAMBDA m : m.role = "system")
        chat == SelectSeq(messages, LAMBDA m : m.role # "system")
        line(m) == <<IF m.role = "user" THEN "User" ELSE "Assistant", ":", " ">>
                   \o m.content \o <<NL>>
    IN  (IF sys # <<>> THEN sys[1].content \o <<NL, NL>> ELSE <<>>)
        \o (IF chat # <<>>
            THEN <<"Conversation:", NL>> \o Concat([i \in 1..Len(chat) |-> line(chat[i])])
            ELSE <<>>)

\* the draft of callAPI for the API Free LLM endpoint: the lines of the
\* conversation, chatMessages.slice(-6) rendered as in buildPrompt
recentConversation(messages) ==
    LET chatMessages == SelectSeq(messages, LAMBDA m : m.role # "system")
        n == Len(chatMessages)
        recentMessages == SubSeq(chatMessages, IF n > 6 THEN n - 5 ELSE 1, n)
        line(m) == <<IF m.role = "user" THEN "User" ELSE "Assistant", ":", " ">>
                   \o m.content \o <<NL>>
    IN  IF recentMessages # <<>>
        THEN <<"Recent conversation:", NL>>
             \o Concat([i \in 1..Len(recentMessages) |-> line(recentMessages[i])])
        ELSE <<>>

(***************************************************************************)
(* LLMService: error handling.                                             *)
(***************************************************************************)
Throw(msg) == [threw |-> TRUE, message |-> msg, value |-> FALSE]
Return(v) == [threw |-> FALSE, message |-> <<>>, value |-> v]

\* a handleError that never asks for a retry
handleError_NoRetry(errorMsg, attempt) == Return(FALSE)

\* a handleError that asks for a retry whatever the error is
handleError_AlwaysRetry(errorMsg, attempt) == Return(TRUE)

\* handleError(error, attempt): throws, or returns whether to retry
handleError(errorMsg, attempt) ==
    LET isLastAttempt == attempt = maxRetries - 1
    IN  IF Includes(errorMsg, "api key") \/ Includes(errorMsg, "api_key_invalid")
        THEN Throw(<<"Invalid API key. Check GEMINI_API_KEY in .env file [...]">>)
        ELSE IF Includes(errorMsg, "model not found")
        THEN Throw(<<"Model \"", modelName, "\" not found. [...]">>)
        ELSE IF Includes(errorMsg, "billing") \/ Includes(errorMsg, "payment")
        THEN Throw(<<"Billing not enabled. [...]">>)
        ELSE IF Includes(errorMsg, "quota") \/ Includes(errorMsg, "resource_exhausted")
        THEN IF isLastAttempt THEN Throw(<<"API quota exceeded. [...]">>) ELSE Return(TRUE)
        ELSE IF Includes(errorMsg, "rate limit") \/ Includes(errorMsg, "too many requests")
        THEN IF isLastAttempt
             THEN Throw(<<"Rate limit reached. Please wait 1 minute.">>)
             ELSE Return(TRUE)
        ELSE IF \/ Includes(errorMsg, "network") \/ Includes(errorMsg, "fetch")
                \/ Includes(errorMsg, "timeout")
        THEN IF isLastAttempt THEN Throw(<<"Network error. Check: [...]">>) ELSE Return(TRUE)
        ELSE Return(TRUE)

\* the error callAPI throws after its loop
RetriesError(lastErrorMsg) ==
    <<"Gemini API Error (after ", ToString(maxRetries), " retries): ">> \o lastErrorMsg

\* createTimeout: the message of the rejection
TimeoutError == <<"Request timeout after ", ToString(requestTimeout \div 1000), "s">>

EmptyResponseError == <<"Empty response from Gemini API">>

\* a backoff that grows by one second per attempt
waitTime_Linear(attempt) == (attempt + 1) * BackoffBaseMs

\* Math.pow(2, attempt) * 1000
waitTime(attempt) == (2 ^ attempt) * BackoffBaseMs

(***************************************************************************)
(* LLMService.sendMessage and callAPI.  A call runs from one await to the  *)
(* next in one step: the event loop runs a handler and the continuations   *)
(* it unblocks to completion before it takes the next event.               *)
(***************************************************************************)
AttemptEvent == [kind |-> "attempt", ms |-> 0]
WaitEvent(ms) == [kind |-> "wait", ms |-> ms]

\* a sendMessage that does not store the user message
PushUser_Forgotten(history, c, m) == history

\* this.chatHistory.push({role: 'user', content: userMessage})
PushUser(history, c, m) ==
    Append(history, [role |-> "user", content |-> m, by |-> c, stale |-> FALSE])

\* a reply that is returned but not stored
PushAssistant_Forgotten(history, c, r) == history

\* this.chatHistory.push({role: 'assistant', content: formattedResponse})
PushAssistant(history, c, r) ==
    Append(history, [role |-> "assistant", content |-> r, by |-> c,
                     stale |-> calls[c].stale])

\* a catch block that removes the entry before the user message as well
PopHistory_Twice(history) ==
    IF Len(history) < 2 THEN <<>> ELSE SubSeq(history, 1, Len(history) - 2)

\* a catch block that forgets to remove the user message
PopHistory_Forgotten(history) == history

\* this.chatHistory.pop()
PopHistory(history) ==
    IF history = <<>> THEN <<>> ELSE SubSeq(history, 1, Len(history) - 1)

\* the record of a call that has returned or thrown
Done(rec) == [NoCall EXCEPT !.pc = "done", !.stale = rec.stale]

\* a chat-message handler that swallows the error and answers {success: true}
SendThrows_Swallowed(c, rec, history, errorMsg) ==
    /\ chatHistory' = PopHistory(history)
    /\ calls' = [calls EXCEPT ![c] = Done(rec)]
    /\ last' = [op |-> "sendMessage", call |-> c, ok |-> TRUE, value |-> <<>>,
                arg |-> rec.userMessage, events |-> rec.events,
                lastError |-> rec.lastError]

\* the catch block of sendMessage, then the catch block of the chat-message
\* handler: {success: false, error: error.message}
SendThrows(c, rec, history, errorMsg) ==
    /\ chatHistory' = PopHistory(history)
    /\ calls' = [calls EXCEPT ![c] = Done(rec)]
    /\ last' = [op |-> "sendMessage", call |-> c, ok |-> FALSE, value |-> errorMsg,
                arg |-> rec.userMessage, events |-> rec.events,
                lastError |-> rec.lastError]

\* callAPI returned: sendMessage formats, stores and returns the reply, and the
\* chat-message handler answers {success: true, response}
SendReturns(c, rec, response) ==
    LET formattedResponse == formatResponse(response)
    IN  /\ chatHistory' = PushAssistant(chatHistory, c, formattedResponse)
        /\ calls' = [calls EXCEPT ![c] = Done(rec)]
        /\ last' = [op |-> "sendMessage", call |-> c, ok |-> TRUE,
                    value |-> formattedResponse,
                    arg |-> rec.userMessage, events |-> rec.events,
                    lastError |-> <<>>]

\* the loop condition of callAPI: attempt < this.config.maxRetries
LoopContinues(attempt) == attempt < maxRetries

\* the break condition of the catch block of callAPI
BreaksLoop(shouldRetry, attempt) == ~shouldRetry \/ attempt = maxRetries - 1

\* a callAPI that builds the prompt of an attempt from the context and the
\* transcript of the moment
StartAttempt_Rebuilds(c, rec, history, attempt) ==
    IF LoopContinues(attempt)
    THEN /\ calls' = [calls EXCEPT ![c] =
                 [rec EXCEPT !.pc = "awaiting", !.attempt = attempt,
                             !.prompt = buildPrompt(BuildMessages(websiteContext, history)),
                             !.events = Append(rec.events, AttemptEvent)]]
         /\ chatHistory' = history
         /\ last' = NoOp
    ELSE SendThrows(c, rec, history,
             RetriesError(IF rec.lastError = <<>> THEN <<"Unknown error">>
                          ELSE rec.lastError))

\* one iteration of the loop of callAPI up to its await: the prompt is built
\* and the request is sent, or the loop is over and callAPI throws
StartAttempt(c, rec, history, attempt) ==
    IF LoopContinues(attempt)
    THEN /\ calls' = [calls EXCEPT ![c] =
                 [rec EXCEPT !.pc = "awaiting", !.attempt = attempt,
                             !.prompt = buildPrompt(rec.messages),
                             !.events = Append(rec.events, AttemptEvent)]]
         /\ chatHistory' = history
         /\ last' = NoOp
    ELSE SendThrows(c, rec, history,
             RetriesError(IF rec.lastError = <<>> THEN <<"Unknown error">>
                          ELSE rec.lastError))

\* ipcMain.handle('chat-message') calling sendMessage(userMessage)
sendMessage(c, userMessage) ==
    /\ c = nextCall + 1
    /\ c \in CallIds
    /\ nextCall' = c
    /\ LET history  == PushUser(chatHistory, c, userMessage)
           messages == BuildMessages(websiteContext, history)
           rec == [NoCall EXCEPT !.userMessage = userMessage, !.messages = messages,
                                 !.pre = chatHistory, !.preCtx = websiteContext]
       IN  StartAttempt(c, rec, history, 0)
    /\ UNCHANGED <<websiteContext, maxRetries, extracting>>

\* the catch block of callAPI
CatchError(c, errorMsg) ==
    LET rec == [calls[c] EXCEPT !.lastError = errorMsg]
        h   == handleError(errorMsg, rec.attempt)
    IN  IF h.threw
        THEN SendThrows(c, rec, chatHistory, h.message)
        ELSE IF BreaksLoop(h.value, rec.attempt)
        THEN SendThrows(c, rec, chatHistory, RetriesError(errorMsg))
        ELSE /\ calls' = [calls EXCEPT ![c] =
                     [rec EXCEPT !.pc = "backoff",
                                 !.events = Append(rec.events,
                                                   WaitEvent(waitTime(rec.attempt)))]]
             /\ UNCHANGED chatHistory
             /\ last' = NoOp

\* generateContent resolved and response.text() is text
AttemptResolved(c, text) ==
    /\ calls[c].pc = "awaiting"
    /\ IF text = <<>>
       THEN CatchError(c, EmptyResponseError)
       ELSE SendReturns(c, calls[c], Trim(text))
    /\ UNCHANGED <<websiteContext, maxRetries, nextCall, extracting>>

\* generateContent rejected
AttemptRejected(c, errorMsg) ==
    /\ calls[c].pc = "awaiting"
    /\ CatchError(c, errorMsg)
    /\ UNCHANGED <<websiteContext, maxRetries, nextCall, extracting>>

\* a timer that never fires
AttemptTimedOut_Never(c) == FALSE

\* the timer of createTimeout fired first
AttemptTimedOut(c) ==
    /\ calls[c].pc = "awaiting"
    /\ CatchError(c, TimeoutError)
    /\ UNCHANGED <<websiteContext, maxRetries, nextCall, extracting>>

\* the backoff timer fired: attempt++ and the next iteration
BackoffElapsed(c) ==
    /\ calls[c].pc = "backoff"
    /\ StartAttempt(c, calls[c], chatHistory, calls[c].attempt + 1)
    /\ UNCHANGED <<websiteContext, maxRetries, nextCall, extracting>>

(***************************************************************************)
(* setWebsiteContext, clearHistory and the handlers that call them.        *)
(***************************************************************************)
\* a call in flight when the conversation is cleared belongs to the cleared
\* conversation; the entries it pushes later carry the mark
MarkStale == [c \in CallIds |-> IF InFlight(c) THEN [calls[c] EXCEPT !.stale = TRUE]
                                ELSE calls[c]]

OpDone(op, ok, value, arg) ==
    [op |-> op, call |-> 0, ok |-> ok, value |-> value, arg |-> arg,
     events |-> <<>>, lastError |-> <<>>]

\* a setWebsiteContext that resets the chat history only when the text differs
setWebsiteContext_ResetsOnChange(content) ==
    /\ websiteContext' = content
    /\ IF content # websiteContext
       THEN chatHistory' = <<>> /\ calls' = MarkStale
       ELSE UNCHANGED <<chatHistory, calls>>

\* a setWebsiteContext that keeps the chat history
setWebsiteContext_KeepsHistory(content) ==
    /\ websiteContext' = content
    /\ UNCHANGED <<chatHistory, calls>>

\* LLMService.setWebsiteContext
setWebsiteContext(content) ==
    /\ websiteContext' = content
    /\ chatHistory' = <<>>
    /\ calls' = MarkStale

\* a clearHistory that resets the context as well
clearHistory_ResetsContext ==
    /\ chatHistory' = <<>>
    /\ calls' = MarkStale
    /\ websiteContext' = <<>>

\* LLMService.clearHistory
clearHistory ==
    /\ chatHistory' = <<>>
    /\ calls' = MarkStale
    /\ UNCHANGED websiteContext

ContextTexts == {extractTextFromHTML(PageHtml(u)) : u \in Urls}

\* ipcMain.handle('set-website-context')
SetWebsiteContextHandler(content) ==
    /\ setWebsiteContext(content)
    /\ last' = OpDone("set-website-context", TRUE, <<>>, content)
    /\ UNCHANGED <<maxRetries, nextCall, extracting>>

\* ipcMain.handle('clear-chat-history')
ClearChatHistoryHandler ==
    /\ clearHistory
    /\ last' = OpDone("clear-chat-history", TRUE, <<>>, <<>>)
    /\ UNCHANGED <<maxRetries, nextCall, extracting>>

RemoveAt(q, i) == SubSeq(q, 1, i - 1) \o SubSeq(q, i + 1, Len(q))

\* ipcMain.handle('extract-content') up to the await of extract(url)
ExtractContentStart(url) ==
    /\ extracting' = Append(extracting, url)
    /\ last' = NoOp
    /\ UNCHANGED <<chatHistory, websiteContext, maxRetries, calls, nextCall>>

\* axios.get resolved: extract returns the text, the handler sets the context
ExtractContentResolved(i) ==
    /\ i \in 1..Len(extracting)
    /\ LET content == extractTextFromHTML(PageHtml(extracting[i]))
       IN  /\ setWebsiteContext(content)
           /\ last' = OpDone("extract-content", TRUE, content, <<extracting[i]>>)
    /\ extracting' = RemoveAt(extracting, i)
    /\ UNCHANGED <<maxRetries, nextCall>>

\* an extract-content handler that drops the context when extract throws
ExtractContentRejected_DropsContext(i) ==
    /\ i \in 1..Len(extracting)
    /\ setWebsiteContext(<<>>)
    /\ last' = OpDone("extract-content", FALSE, FetchError, <<extracting[i]>>)
    /\ extracting' = RemoveAt(extracting, i)
    /\ UNCHANGED <<maxRetries, nextCall>>

\* axios.get rejected: extract throws, the handler answers {success: false, error}
ExtractContentRejected(i) ==
    /\ i \in 1..Len(extracting)
    /\ last' = OpDone("extract-content", FALSE, FetchError, <<extracting[i]>>)
    /\ extracting' = RemoveAt(extracting, i)
    /\ UNCHANGED <<chatHistory, websiteContext, maxRetries, calls, nextCall>>

(***************************************************************************)
(* Specifications.  Spec: the handlers of the main process are invoked in  *)
(* any order and may overlap.  SeqSpec: one operation at a time.           *)
(***************************************************************************)
(***************************************************************************)
(* The renderer (AIApp).  A request sent over IPC reaches its handler, and *)
(* the handler's answer reaches the renderer, in the step that sends it.   *)
(***************************************************************************)
\* addChatMessage(role, content): the element appended to #chatMessages
Message(role, content) == [role |-> role, content |-> content]

Thinking == Message("assistant", <<"Thinking...">>)
PleaseWait ==
    Message("system", <<"Please wait for content extraction to complete, or load a website first.">>)
ChatCleared == Message("system", <<"Chat history cleared! Ready for new questions.">>)
ContentExtractedNotice ==
    Message("system", <<"Content extracted! You can now ask questions about this page.">>)

\* `${result.error}` of an answer
ErrorText(result) == IF result.ok THEN <<"undefined">> ELSE result.value

\* the branches of handleSendMessage after the await of sendChatMessage
SendResultMessage(result) ==
    IF result.ok /\ result.value # <<>>
    THEN Message("assistant", result.value)
    ELSE Message("system", <<"Error: ">> \o ErrorText(result))

\* a removeChatMessage that finds no element
removeChatMessage_Missed(elements, id) == elements

\* removeChatMessage(messageId)
removeChatMessage(elements, id) == elements \ {id}

\* a renderer that takes every page for one it has not extracted
AlreadyExtracted_Never(url) == FALSE

\* this.isContentExtracted && this.lastExtractedUrl && this.lastExtractedUrl === url
AlreadyExtracted(url) ==
    isContentExtracted /\ lastExtractedUrl # "" /\ lastExtractedUrl = url

\* a renderer that does not look at the requests in flight
AlreadyExtracting_Never(url) == FALSE

\* this.extractingUrls.has(url)
AlreadyExtracting(url) == url \in extractingUrls

\* a finally block that leaves the marker
ClearMarker_Forgotten(url) == extractingUrls

\* this.extractingUrls.delete(url)
ClearMarker(url) == extractingUrls \ {url}

\* handleSendMessage up to its await: the message is not empty
HandleSendMessage(message) ==
    IF ~isContentExtracted
    THEN /\ shown' = Shown("handleSendMessage", <<PleaseWait>>)
         /\ last' = NoOp
         /\ UNCHANGED <<svcVars, webviewUrl, isContentExtracted, lastExtractedUrl,
                        extractingUrls, loading, lastRequested, pendingLoad, extractedOk>>
    ELSE /\ sendMessage(nextCall + 1, message)
         /\ IF calls'[nextCall + 1].pc = "done"
            THEN /\ shown' = Shown("handleSendMessage",
                                   <<Message("user", message), SendResultMessage(last')>>)
                 /\ UNCHANGED loading
            ELSE /\ shown' = Shown("handleSendMessage",
                                   <<Message("user", message), Thinking>>)
                 /\ loading' = loading \cup {nextCall + 1}
         /\ UNCHANGED <<webviewUrl, isContentExtracted, lastExtractedUrl,
                        extractingUrls, lastRequested, pendingLoad, extractedOk>>

\* the rest of handleSendMessage when the step of call c settled sendChatMessage;
\* a step that leaves the call in flight shows nothing
HandleSendMessageResumes(c) ==
    /\ IF calls'[c].pc = "done"
       THEN /\ loading' = removeChatMessage(loading, c)
            /\ shown' = Shown("handleSendMessage", <<SendResultMessage(last')>>)
       ELSE /\ shown' = Quiet
            /\ UNCHANGED loading
    /\ UNCHANGED <<webviewUrl, isContentExtracted, lastExtractedUrl, extractingUrls,
                   lastRequested, pendingLoad, extractedOk>>

\* handleClearChat: chatMessages.innerHTML is replaced by one system message
HandleClearChat ==
    /\ ClearChatHistoryHandler
    /\ loading' = {}
    /\ shown' = Shown("handleClearChat", <<ChatCleared>>)
    /\ UNCHANGED <<webviewUrl, isContentExtracted, lastExtractedUrl, extractingUrls,
                   lastRequested, pendingLoad, extractedOk>>

\* handleLoadUrl: the URL typed is not empty
HandleLoadUrl(url) ==
    /\ isContentExtracted' = FALSE
    /\ lastExtractedUrl' = ""
    /\ webviewUrl' = url
    /\ pendingLoad' = url
    /\ extractedOk' = ""
    /\ shown' = Shown("handleLoadUrl", <<>>)
    /\ last' = NoOp
    /\ UNCHANGED <<svcVars, extractingUrls, loading, lastRequested>>

\* the page shown navigates by itself (a link, a redirect)
WebviewNavigates(url) ==
    /\ webviewUrl # url
    /\ webviewUrl' = url
    /\ shown' = Quiet
    /\ last' = NoOp
    /\ UNCHANGED <<svcVars, isContentExtracted, lastExtractedUrl, extractingUrls,
                   loading, lastRequested, pendingLoad, extractedOk>>

\* did-fail-load of the main frame for validatedURL url, not an aborted navigation
DidFailLoad(url) ==
    /\ shown' = Shown("did-fail-load",
                      IF isContentExtracted /\ url = webviewUrl THEN <<>>
                      ELSE <<Message("system", <<"Failed to load website: ", "Unknown error">>)>>)
    /\ last' = NoOp
    /\ UNCHANGED <<svcVars, webviewUrl, isContentExtracted, lastExtractedUrl,
                   extractingUrls, loading, lastRequested, pendingLoad, extractedOk>>

\* did-finish-load: autoExtractContent up to its await, or to its early return
AutoExtractContent ==
    LET url == webviewUrl
    IN  /\ url # ""
        /\ shown' = Shown("autoExtractContent", <<>>)
        /\ IF AlreadyExtracted(url) \/ AlreadyExtracting(url)
           THEN /\ last' = NoOp
                /\ UNCHANGED <<svcVars, extractingUrls, lastRequested>>
           ELSE /\ extractingUrls' = extractingUrls \cup {url}
                /\ ExtractContentStart(url)
                /\ lastRequested' = [url |-> url, outcome |-> "pending"]
        /\ UNCHANGED <<webviewUrl, isContentExtracted, lastExtractedUrl, loading,
                       pendingLoad, extractedOk>>

\* did-finish-load can be handled with at most n requests in flight afterwards
ExtractionAllowed(n) ==
    Len(extracting) < n \/ AlreadyExtracted(webviewUrl) \/ AlreadyExtracting(webviewUrl)

\* the request extracting[i] is the one made last
IsLatest(i) == lastRequested.outcome = "pending" /\ i = Len(extracting)

\* the rest of autoExtractContent on {success: true, content}
ExtractionSucceeded(i) ==
    /\ ExtractContentResolved(i)
    /\ LET url == extracting[i]
       IN  /\ IF last'.value # <<>>
              THEN /\ isContentExtracted' = TRUE
                   /\ lastExtractedUrl' = url
                   /\ shown' = Shown("autoExtractContent",
                                     IF lastExtractedUrl # url
                                     THEN <<ContentExtractedNotice>> ELSE <<>>)
                   /\ extractedOk' = url
                   /\ pendingLoad' = IF pendingLoad = url THEN "" ELSE pendingLoad
              ELSE /\ isContentExtracted' = FALSE
                   /\ shown' = Shown("autoExtractContent",
                                     <<Message("system", <<"Failed to extract content: ",
                                                           "undefined">>)>>)
                   /\ extractedOk' = ""
                   /\ UNCHANGED <<lastExtractedUrl, pendingLoad>>
           /\ lastRequested' = IF IsLatest(i) THEN [url |-> url, outcome |-> "ok"]
                               ELSE lastRequested
           /\ extractingUrls' = ClearMarker(url)
    /\ UNCHANGED <<webviewUrl, loading>>

\* the rest of autoExtractContent on {success: false, error}
ExtractionFailed(i) ==
    /\ ExtractContentRejected(i)
    /\ isContentExtracted' = FALSE
    /\ shown' = Shown("autoExtractContent",
                      <<Message("system", <<"Failed to extract content: ">> \o last'.value)>>)
    /\ extractedOk' = ""
    /\ lastRequested' = IF IsLatest(i) THEN [url |-> extracting[i], outcome |-> "failed"]
                        ELSE lastRequested
    /\ extractingUrls' = ClearMarker(extracting[i])
    /\ UNCHANGED <<webviewUrl, lastExtractedUrl, loading, pendingLoad>>

(***************************************************************************)
(* Specifications.                                                         *)
(*   Spec:    the handlers of the main process, invoked in any order and   *)
(*            overlapping.                                                 *)
(*   SeqSpec: the same handlers, one operation at a time.                  *)
(*   UISpec:  the renderer driving the main process: pages are loaded from *)
(*            the URL bar and messages are sent.                           *)
(*   NavSpec: the renderer loading pages, the pages navigating and their   *)
(*            extractions overlapping; no message is sent.                 *)
(***************************************************************************)
\* the messages, replies and errors that Spec and UISpec draw from
CoreMessages == {m \in UserMessages : m[1] = "h"}
CoreReplies == {r \in RawReplies : Len(r) > 1}
CoreErrors == {<<"API key not valid">>}

\* the replies UISpec draws from: a text and white space only
UIReplies == {r \in RawReplies : r # <<>> /\ Len(r) <= 2}

Next ==
    \/ \E m \in CoreMessages : sendMessage(nextCall + 1, m) /\ UNCHANGED uiVars
    \/ \E c \in CallIds, t \in CoreReplies : AttemptResolved(c, t) /\ UNCHANGED uiVars
    \/ \E c \in CallIds, e \in CoreErrors : AttemptRejected(c, e) /\ UNCHANGED uiVars
    \/ \E c \in CallIds : AttemptTimedOut(c) /\ UNCHANGED uiVars
    \/ \E c \in CallIds : BackoffElapsed(c) /\ UNCHANGED uiVars
    \/ \E t \in ContextTexts : SetWebsiteContextHandler(t) /\ UNCHANGED uiVars
    \/ ClearChatHistoryHandler /\ UNCHANGED uiVars
    \/ Len(extracting) < MaxExtracting
           /\ \E u \in Urls : ExtractContentStart(u) /\ UNCHANGED uiVars
    \/ \E i \in 1..MaxExtracting : ExtractContentResolved(i) /\ UNCHANGED uiVars
    \/ \E i \in 1..MaxExtracting : ExtractContentRejected(i) /\ UNCHANGED uiVars

\* the configuration when MAX_RETRIES is not set
DefaultInit == Init /\ maxRetries = DefaultMaxRetries

Spec == DefaultInit /\ [][Next]_vars

\* an operation is running
Busy == (\E c \in CallIds : InFlight(c)) \/ extracting # <<>>

SeqNext ==
    \/ ~Busy /\ \E m \in UserMessages : sendMessage(nextCall + 1, m) /\ UNCHANGED uiVars
    \/ \E c \in CallIds, t \in RawReplies : AttemptResolved(c, t) /\ UNCHANGED uiVars
    \/ \E c \in CallIds, e \in ApiErrors : AttemptRejected(c, e) /\ UNCHANGED uiVars
    \/ \E c \in CallIds : AttemptTimedOut(c) /\ UNCHANGED uiVars
    \/ \E c \in CallIds : BackoffElapsed(c) /\ UNCHANGED uiVars
    \/ ~Busy /\ \E t \in ContextTexts : SetWebsiteContextHandler(t) /\ UNCHANGED uiVars
    \/ ~Busy /\ ClearChatHistoryHandler /\ UNCHANGED uiVars
    \/ ~Busy /\ Len(extracting) < MaxExtracting
             /\ \E u \in Urls : ExtractContentStart(u) /\ UNCHANGED uiVars
    \/ \E i \in 1..MaxExtracting : ExtractContentResolved(i) /\ UNCHANGED uiVars
    \/ \E i \in 1..MaxExtracting : ExtractContentRejected(i) /\ UNCHANGED uiVars

SeqSpec == Init /\ [][SeqNext]_vars

UINext ==
    \/ \E m \in CoreMessages : HandleSendMessage(m)
    \/ HandleClearChat
    \/ \E u \in Urls : HandleLoadUrl(u)
    \/ ExtractionAllowed(MaxExtracting) /\ AutoExtractContent
    \/ \E i \in 1..MaxExtracting : ExtractionSucceeded(i)
    \/ \E i \in 1..MaxExtracting : ExtractionFailed(i)
    \/ \E c \in CallIds, t \in UIReplies : AttemptResolved(c, t) /\ HandleSendMessageResumes(c)
    \/ \E c \in CallIds, e \in CoreErrors : AttemptRejected(c, e) /\ HandleSendMessageResumes(c)
    \/ \E c \in CallIds : AttemptTimedOut(c) /\ HandleSendMessageResumes(c)
    \/ \E c \in CallIds : BackoffElapsed(c) /\ HandleSendMessageResumes(c)

UISpec == DefaultInit /\ [][UINext]_vars

NavNext ==
    \/ \E u \in Urls : HandleLoadUrl(u)
    \/ \E u \in Urls : WebviewNavigates(u)
    \/ \E u \in Urls : DidFailLoad(u)
    \/ ExtractionAllowed(MaxOverlap) /\ AutoExtractContent
    \/ \E i \in 1..MaxOverlap : ExtractionSucceeded(i)
    \/ \E i \in 1..MaxOverlap : ExtractionFailed(i)

NavSpec == DefaultInit /\ [][NavNext]_vars

(***************************************************************************)
(* FnSpec: the text functions of the services applied to texts of bounded  *)
(* length; last holds the function, its arguments and its result.          *)
(***************************************************************************)
\* the texts of at most n characters of an alphabet
RECURSIVE TextsUpTo(_, _)
TextsUpTo(alphabet, n) ==
    IF n = 0 THEN {<<>>}
    ELSE LET shorter == TextsUpTo(alphabet, n - 1)
         IN  shorter \cup {Append(t, ch) : t \in shorter, ch \in alphabet}

\* a page text of n characters, its characters told apart by their position
PageText(n) == [i \in 1..n |-> IF i % 2 = 1 THEN "x" ELSE ToString(i % 10)]

\* page texts shorter than, as long as and longer than contextMaxChars
ContextInputs ==
    {<<>>, PageText(2), PageText(contextMaxChars), PageText(contextMaxChars + 1),
     PageText(contextMaxChars + 2)}

\* a transcript of n entries that ends with the user message just pushed
HistoryOf(n) ==
    [i \in 1..n |->
        [role |-> IF (n - i) % 2 = 0 THEN "user" ELSE "assistant",
         content |-> <<"m", ToString(i)>>, by |-> 0, stale |-> FALSE]]

HistoryInputs == {HistoryOf(n) : n \in 1..MaxHistory}

\* the tags and texts the pages are made of
ScriptOpen == <<"<", "s", "c", "r", "i", "p", "t", ">">>
ScriptClose == <<"<", "/", "S", "C", "R", "I", "P", "T", ">">>
StyleOpen == <<"<", "S", "T", "Y", "L", "E", ">">>
StyleClose == <<"<", "/", "s", "t", "y", "l", "e", ">">>
HtmlPieces == {ScriptOpen, ScriptClose, StyleOpen, StyleClose, <<"x">>}

\* the page of the scenario
ScenarioHtml ==
    <<"<", "h", "t", "m", "l", ">", "<", "s", "c", "r", "i", "p", "t", ">",
      "x", "<", "/", "s", "c", "r", "i", "p", "t", ">", "<", "p", ">", "H",
      "e", "l", "l", "o", " ", "&", "a", "m", "p", ";", " ", "W", "o", "r",
      "l", "d", "<", "/", "p", ">", "<", "/", "h", "t", "m", "l", ">">>

\* the pages: at most MaxPieces tags and texts in a row, and the scenario
HtmlInputs == TextsUpTo(HtmlPieces, MaxPieces) \cup {<<ScenarioHtml>>}

\* one function is applied in a behaviour
FnReturn(op, value, arg) ==
    /\ last = NoOp
    /\ last' = OpDone(op, TRUE, value, arg)
    /\ UNCHANGED <<svcVars, uiVars>>

CallTruncateContent(content, maxChars) ==
    FnReturn("truncateContent", truncateContent(content, maxChars), <<content, maxChars>>)

CallBuildPrompt(context, history) ==
    FnReturn("buildPrompt", buildPrompt(BuildMessages(context, history)),
             <<context, history>>)

CallRecentConversation(context, history) ==
    FnReturn("recentConversation", recentConversation(BuildMessages(context, history)),
             <<context, history>>)

CallExtractTextFromHTML(pieces) ==
    FnReturn("extractTextFromHTML", extractTextFromHTML(Concat(pieces)), pieces)

\* the entities and characters the texts with entities are made of
EntityPieces ==
    EntityNames \cup {<<"&", "c", "o", "p", "y", ";">>, <<"&">>, <<"a">>, <<";">>,
                      <<"l", "t", ";">>}

EntityInputs == TextsUpTo(EntityPieces, MaxEntities)

\* the tags, entities and characters the pages with white space are made of
SpacedPieces ==
    {<<" ">>, <<NL>>, <<"<", "p", ">">>, <<"&", "n", "b", "s", "p", ";">>, <<"x">>}

SpacedInputs == TextsUpTo(SpacedPieces, MaxPieces)

\* the characters of the replies with line breaks and sentence ends
BreakPieces == {<<NL>>, <<".">>, <<"A">>, <<"a">>}

\* the markers and characters of the replies with lists
ListPieces == {<<Star, " ">>, <<"-", " ">>, <<"a">>, <<NL>>}

\* the replies formatResponse is applied to
ReplyInputs ==
    {Concat(ps) : ps \in TextsUpTo(BreakPieces, MaxPieces) \cup TextsUpTo(ListPieces, MaxPieces)}

CallFormatResponse(text) ==
    FnReturn("formatResponse", formatResponse(text), <<text>>)

\* the characters and markers of the messages shown in the chat
MessagePieces ==
    {<<"<">>, <<">">>, <<"&">>, <<Star>>, <<NL>>, <<"-", " ">>, <<"1", ".", " ">>,
     <<"a", ":">>}

MessageInputs == {Concat(ps) : ps \in TextsUpTo(MessagePieces, MaxTextLen)}

CallFormatMessageToHTML(text) ==
    FnReturn("formatMessageToHTML", formatMessageToHTML(text), <<text>>)

CallDecodeHTMLEntities(pieces) ==
    FnReturn("decodeHTMLEntities", decodeHTMLEntities(Concat(pieces)), pieces)

FnNext ==
    \/ \E t \in TextsUpTo({"a", NL}, MaxTextLen), n \in 0..MaxTextLen :
           CallTruncateContent(t, n)
    \/ \E x \in ContextInputs, h \in HistoryInputs : CallBuildPrompt(x, h)
    \/ \E x \in ContextInputs, h \in HistoryInputs : CallRecentConversation(x, h)
    \/ \E ps \in HtmlInputs : CallExtractTextFromHTML(ps)
    \/ \E ps \in SpacedInputs : CallExtractTextFromHTML(ps)
    \/ \E ps \in EntityInputs : CallDecodeHTMLEntities(ps)
    \/ \E t \in ReplyInputs : CallFormatResponse(t)
    \/ \E t \in MessageInputs : CallFormatMessageToHTML(t)

FnSpec == DefaultInit /\ [][FnNext]_vars

\* LiveSpec: Spec with the timers of createTimeout and of the backoff wait
\* firing: a timer set with setTimeout fires unless its call has moved on
LiveSpec ==
    /\ Spec
    /\ \A c \in CallIds :
           /\ WF_vars(AttemptTimedOut(c) /\ UNCHANGED uiVars)
           /\ WF_vars(BackoffElapsed(c) /\ UNCHANGED uiVars)

(***************************************************************************)
(* Properties.                                                             *)
(***************************************************************************)
\* call c returns or throws in this step
Completes(c) == calls[c].pc # "done" /\ calls'[c].pc = "done"

\* the transcript when call c started
PreOf(c) == IF calls[c].pc = "idle" THEN chatHistory ELSE calls[c].pre

\* the message call c was given
MessageOf(c) == IF calls[c].pc = "idle" THEN last'.arg ELSE calls[c].userMessage

SendFailed == last.op = "sendMessage" /\ ~last.ok
SendSucceeded == last.op = "sendMessage" /\ last.ok

\* number of remote attempts in a record of events
Attempts(events) == Cardinality({i \in 1..Len(events) : events[i].kind = "attempt"})

\* C1 (rollback): with one operation at a time, a sendMessage call that fails
\* leaves the transcript equal to the transcript before the call, and the
\* caller gets the error.
C1_Rollback ==
    [][\A c \in CallIds :
          (Completes(c) /\ ~last'.ok) =>
              /\ chatHistory' = PreOf(c)
              /\ last'.op = "sendMessage" /\ last'.call = c
              /\ last'.value # <<>>]_vars

\* a call failed after an earlier exchange was stored, and after a retry
C1_Witness ==
    SendFailed /\ Len(chatHistory) = 2 /\ Attempts(last.events) >= 2

\* C2 (success): with one operation at a time, a sendMessage(m) that succeeds
\* with reply r leaves the transcript equal to the previous transcript followed
\* by user:m and assistant:r, and r is the value returned.
C2_Success ==
    [][\A c \in CallIds :
          (Completes(c) /\ last'.ok) =>
              LET pre == PreOf(c)
                  n   == Len(pre)
              IN  /\ Len(chatHistory') = n + 2
                  /\ SubSeq(chatHistory', 1, n) = pre
                  /\ chatHistory'[n + 1].role = "user"
                  /\ chatHistory'[n + 1].content = MessageOf(c)
                  /\ chatHistory'[n + 2].role = "assistant"
                  /\ chatHistory'[n + 2].content = last'.value
                  /\ last'.op = "sendMessage" /\ last'.call = c]_vars

\* a second exchange was stored after a first one
C2_Witness == SendSucceeded /\ Len(chatHistory) = 4 /\ last.value # <<>>

\* the context a step set, when it set one
SetsContext == last.op = "set-website-context" \/ (last.op = "extract-content" /\ last.ok)
ContextSet == IF last.op = "set-website-context" THEN last.arg ELSE last.value

\* C3 (context reset): in the state a setContext(c) step leaves, the context is
\* c and the transcript is empty, and no step changes the context without
\* emptying the transcript.
C3_ContextReset ==
    [][/\ SetsContext' => (websiteContext' = ContextSet' /\ chatHistory' = <<>>)
       /\ websiteContext' # websiteContext => chatHistory' = <<>>]_vars

\* the context was replaced while a sendMessage call was in flight, after an
\* earlier call had completed
C3_Witness ==
    /\ SetsContext
    /\ websiteContext # <<>>
    /\ \E c \in CallIds : calls[c].pc = "done"
    /\ \E c \in CallIds : InFlight(c) /\ calls[c].pre # <<>>

\* C4 (clearHistory): a clearHistory step empties the transcript, leaves the
\* context as it was and succeeds.
C4_ClearHistory ==
    [][last'.op = "clear-chat-history" =>
          /\ chatHistory' = <<>>
          /\ websiteContext' = websiteContext
          /\ last'.ok]_vars

\* the history was cleared with a context set and a call in flight
C4_Witness ==
    /\ last.op = "clear-chat-history"
    /\ websiteContext # <<>>
    /\ \E c \in CallIds : InFlight(c) /\ calls[c].pre # <<>>

\* a transcript of complete exchanges
CompleteExchanges(h) ==
    /\ Len(h) % 2 = 0
    /\ \A i \in 1..Len(h) : h[i].role = IF i % 2 = 1 THEN "user" ELSE "assistant"
    /\ \A i \in 1..Len(h) : i % 2 = 1 => h[i].by = h[i + 1].by

NoSendInFlight == \A c \in CallIds : ~InFlight(c)

\* C5 (no dangling user turn): with one operation at a time, whenever no
\* sendMessage call is in flight the transcript is a sequence of complete
\* exchanges: even length, user and assistant alternating, user first.
C5_NoDanglingUserTurn == NoSendInFlight => CompleteExchanges(chatHistory)

\* a call failed after an exchange was stored
C5_Witness == SendFailed /\ NoSendInFlight /\ Len(chatHistory) = 2

\* every user message has the reply of its call and every reply its user message
Paired(h) ==
    \A i \in 1..Len(h) :
        \E j \in 1..Len(h) : h[j].by = h[i].by /\ h[j].role # h[i].role

\* C6 (overlapping sends): when sendMessage calls overlap and the conversation
\* is not cleared while a call runs, then once all calls have completed every
\* user message of the transcript has its reply and every reply its message.
C6_OverlappingSends ==
    (NoSendInFlight /\ \A c \in CallIds : ~calls[c].stale) => Paired(chatHistory)

\* C7 (one context per transcript): the transcript holds no entry of a call
\* that was in flight when the context was replaced or the history cleared.
C7_NoMixedContexts == \A i \in 1..Len(chatHistory) : ~chatHistory[i].stale

\* C8 (one send at a time): at most one chat-message request of the renderer
\* is outstanding.
C8_OneSendAtATime == Cardinality({c \in CallIds : InFlight(c)}) <= 1

\* the error classes that are not retried
NonRetryable(msg) ==
    \/ Includes(msg, "api key") \/ Includes(msg, "api_key_invalid")
    \/ Includes(msg, "model not found")
    \/ Includes(msg, "billing") \/ Includes(msg, "payment")

\* C9 (retry bound): a sendMessage call never makes more than maxRetries remote
\* attempts, and a call whose attempts all ended in retryable failures made
\* exactly maxRetries attempts when it fails.
C9_RetryBound ==
    /\ \A c \in CallIds : Attempts(calls[c].events) <= maxRetries
    /\ last.op = "sendMessage" => Attempts(last.events) <= maxRetries
    /\ (SendFailed /\ ~NonRetryable(last.lastError)) =>
           Attempts(last.events) = maxRetries

\* a call failed after three attempts under the default configuration
C9_Witness ==
    /\ SendFailed /\ ~NonRetryable(last.lastError)
    /\ maxRetries = DefaultMaxRetries
    /\ Attempts(last.events) = DefaultMaxRetries

\* attempts and waits alternate, attempt first, and the k-th wait is 2^(k-1) s
Schedule(events) ==
    \A i \in 1..Len(events) :
        IF i % 2 = 1 THEN events[i].kind = "attempt"
        ELSE events[i].kind = "wait" /\ events[i].ms = (2 ^ ((i \div 2) - 1)) * 1000

\* C10 (backoff schedule): the wait after the k-th failed attempt is 2^(k-1)
\* seconds, waits occur only between two attempts, and a call that made n >= 1
\* attempts waited n-1 times.
C10_BackoffSchedule ==
    /\ \A c \in CallIds : Schedule(calls[c].events)
    /\ last.op = "sendMessage" =>
           /\ Schedule(last.events)
           /\ last.events # <<>> => last.events[Len(last.events)].kind = "attempt"
           /\ Attempts(last.events) >= 1 =>
                  Len(last.events) - Attempts(last.events) = Attempts(last.events) - 1

\* a call made four attempts and waited 1 s, 2 s and 4 s
C10_Witness ==
    /\ last.op = "sendMessage"
    /\ Attempts(last.events) = 4
    /\ last.events[6] = WaitEvent(4000)

\* whether part occurs in msg
ContainsText(msg, part) == IndexFrom(msg, 1, part) > 0

\* number of waits in a record of events
Waits(events) == Len(events) - Attempts(events)

\* a call failed because its attempts were used up by retryable failures
Exhausted ==
    /\ SendFailed
    /\ last.lastError # <<>>
    /\ ~NonRetryable(last.lastError)
    /\ Attempts(last.events) = maxRetries

\* C11 (exhaustion error): the error of a sendMessage call that used up its
\* attempts on retryable failures contains the number of attempts and the
\* message of the last failure.
C11_ExhaustionError ==
    Exhausted =>
        /\ ContainsText(last.value, <<ToString(maxRetries)>>)
        /\ ContainsText(last.value, last.lastError)

\* the message handleError throws for a non-retryable error
RemediationOf(msg) ==
    IF Includes(msg, "api key") \/ Includes(msg, "api_key_invalid")
    THEN <<"Invalid API key. Check GEMINI_API_KEY in .env file [...]">>
    ELSE IF Includes(msg, "model not found")
    THEN <<"Model \"", modelName, "\" not found. [...]">>
    ELSE <<"Billing not enabled. [...]">>

C13_Termination ==
    /\ [](\A c \in CallIds :
             /\ Attempts(calls[c].events) <= maxRetries
             /\ InFlight(c) => Waits(calls[c].events) <= maxRetries - 1)
    /\ \A c \in CallIds : InFlight(c) ~> calls[c].pc = "done"

\* a call failed after every attempt was ended by its timer
C13_Witness ==
    /\ SendFailed
    /\ last.lastError = TimeoutError
    /\ Attempts(last.events) = DefaultMaxRetries
    /\ Waits(last.events) = DefaultMaxRetries - 1

\* C14 (truncation): truncateContent(s, limit) is s when s has at most limit
\* characters, and otherwise the first limit characters of s followed by the
\* truncation marker; truncating its result for a short s changes nothing.
C14_Truncation ==
    last.op = "truncateContent" =>
        LET s == last.arg[1]
            limit == last.arg[2]
            r == last.value
        IN  /\ Len(s) <= limit => (r = s /\ truncateContent(r, limit) = r)
            /\ Len(s) > limit =>
                   /\ Len(r) = limit + Len(TruncationMarker)
                   /\ \A i \in 1..limit : r[i] = s[i]
                   /\ SubSeq(r, limit + 1, Len(r)) =
                          <<NL, NL, "[Content truncated...]">>

\* a text of three characters was cut to its first two
C14_Witness ==
    /\ last.op = "truncateContent"
    /\ last.arg[2] = 2
    /\ Len(last.arg[1]) = 3
    /\ last.value = SubSeq(last.arg[1], 1, 2) \o TruncationMarker

\* number of positions of a text that hold x
Count(text, x) == Cardinality({i \in 1..Len(text) : text[i] = x})

InstructionHead == "You are a helpful AI assistant. [...] WEBSITE CONTENT:"

\* C15 (context injection): the prompt holds the system instruction exactly
\* when the context is not empty, and the instruction embeds the whole context
\* when it has at most contextMaxChars characters, otherwise its first
\* contextMaxChars characters followed by the truncation marker, once.
C15_ContextInjection ==
    last.op = "buildPrompt" =>
        LET context == last.arg[1]
            prompt  == last.value
            K       == contextMaxChars
            n       == Len(context)
            copyLen == IF n <= K THEN n ELSE K
        IN  /\ context = <<>> => Count(prompt, InstructionHead) = 0
            /\ context # <<>> =>
                   /\ Count(prompt, InstructionHead) = 1
                   /\ prompt[1] = InstructionHead /\ prompt[2] = NL
                   /\ SubSeq(prompt, 3, 2 + copyLen) = SubSeq(context, 1, copyLen)
                   /\ Count(prompt, "[Content truncated...]") = IF n <= K THEN 0 ELSE 1
                   /\ n > K => SubSeq(prompt, 3 + K, 5 + K) =
                                  <<NL, NL, "[Content truncated...]">>
                   /\ SubSeq(prompt, 3 + copyLen + (IF n <= K THEN 0 ELSE 3),
                                     5 + copyLen + (IF n <= K THEN 0 ELSE 3)) =
                          <<NL, NL, "Please provide clear, accurate answers based on this content.">>

\* a prompt was built from a context longer than contextMaxChars
C15_Witness ==
    /\ last.op = "buildPrompt"
    /\ Len(last.arg[1]) = contextMaxChars + 2
    /\ Count(last.value, "[Content truncated...]") = 1

\* the line of the prompt for a transcript entry
ConversationLine(m) ==
    <<IF m.role = "user" THEN "User" ELSE "Assistant", ":", " ">> \o m.content \o <<NL>>

\* the text after the heading of the conversation in a prompt
ConversationOf(prompt) ==
    LET heads == {i \in 1..Len(prompt) :
                     prompt[i] \in {"Conversation:", "Recent conversation:"}}
    IN  IF heads = {} THEN <<>>
        ELSE From(prompt, 2 + CHOOSE i \in heads : \A j \in heads : i <= j)

\* the last w entries of a transcript
Window(history, w) ==
    SubSeq(history, IF Len(history) > w THEN Len(history) - w + 1 ELSE 1, Len(history))

\* C16 (history window): the conversation of a prompt is the lines of the
\* last 6 entries of the transcript, in order, and of all entries when there
\* are fewer.
C16_HistoryWindow ==
    last.op \in {"buildPrompt", "recentConversation"} =>
        LET recent == Window(last.arg[2], 6)
        IN  ConversationOf(last.value) =
                Concat([i \in 1..Len(recent) |-> ConversationLine(recent[i])])

EndsWith(text, part) ==
    Len(part) <= Len(text) /\ SubSeq(text, Len(text) - Len(part) + 1, Len(text)) = part

\* C17 (verbatim question): the prompt of every sendMessage call that awaits
\* the endpoint, overlapping calls included, ends with the line of the call's
\* own user message, the message given to the call.
C17_VerbatimQuestion ==
    \A c \in CallIds :
        InFlight(c) =>
            LET rec == calls[c]
                n   == Len(rec.messages)
            IN  /\ n >= 1
                /\ rec.messages[n].role = "user"
                /\ rec.messages[n].by = c
                /\ rec.messages[n].content = rec.userMessage
                /\ EndsWith(rec.prompt, <<"User", ":", " ">> \o rec.userMessage \o <<NL>>)
                /\ EndsWith(recentConversation(rec.messages),
                            <<"User", ":", " ">> \o rec.userMessage \o <<NL>>)

\* two calls await the endpoint, the second started after the first
C17_Witness ==
    /\ InFlight(1) /\ InFlight(2)
    /\ Len(calls[2].messages) >= 2
    /\ calls[2].prompt # <<>>

\* C18 (response shapes): a reply without usable text is a failed attempt and
\* is never stored as an assistant turn: every assistant entry of the
\* transcript has a text, and so has the value a successful call returns.
C18_ResponseShapes ==
    /\ \A i \in 1..Len(chatHistory) :
           chatHistory[i].role = "assistant" => chatHistory[i].content # <<>>
    /\ SendSucceeded => last.value # <<>>

ScriptName == <<"s", "c", "r", "i", "p", "t">>
StyleName == <<"s", "t", "y", "l", "e">>

IsOpenTag(piece, name) == ToLower(piece) = <<"<">> \o name \o <<">">>
IsCloseTag(piece, name) == ToLower(piece) = <<"<", "/">> \o name \o <<">">>

\* position of the first closing tag of a name after position i, 0 if none
FirstClose(pieces, i, name) ==
    LET js == {j \in (i + 1)..Len(pieces) : IsCloseTag(pieces[j], name)}
    IN  IF js = {} THEN 0 ELSE CHOOSE j \in js : \A k \in js : j <= k

\* the script and style blocks of a page, read from left to right: a block
\* runs from an opening tag to the first closing tag of its name
RECURSIVE Blocks(_, _)
Blocks(pieces, i) ==
    IF i > Len(pieces) THEN {}
    ELSE LET name == IF IsOpenTag(pieces[i], ScriptName) THEN ScriptName
                     ELSE IF IsOpenTag(pieces[i], StyleName) THEN StyleName
                     ELSE <<>>
             j == IF name = <<>> THEN 0 ELSE FirstClose(pieces, i, name)
         IN  IF j > 0
             THEN {[name |-> name, from |-> i, to |-> j]} \cup Blocks(pieces, j + 1)
             ELSE Blocks(pieces, i + 1)

\* the positions between the tags of a block
Inside(block) == (block.from + 1)..(block.to - 1)

\* a style block with an opening script tag in it
HoldsScriptTag(pieces, block) ==
    block.name = StyleName /\ \E k \in Inside(block) : IsOpenTag(pieces[k], ScriptName)

\* the text x occurs in the page, and only inside the given blocks
OnlyInside(pieces, blocks) ==
    LET xs == {i \in 1..Len(pieces) : pieces[i] = <<"x">>}
    IN  xs # {} /\ \A i \in xs : \E b \in blocks : i \in Inside(b)

\* C19 (HTML reduction) as stated: the output of extractTextFromHTML holds no
\* tag, holds no text that stood inside a script or style block of the page,
\* and is 'Hello & World' for the page of the scenario.
C19_HtmlReduction ==
    last.op = "extractTextFromHTML" =>
        /\ Count(last.value, "<") = 0 /\ Count(last.value, ">") = 0
        /\ OnlyInside(last.arg, Blocks(last.arg, 1)) => Count(last.value, "x") = 0
        /\ last.arg = <<ScenarioHtml>> =>
               last.value = <<"H", "e", "l", "l", "o", " ", "&", " ", "W", "o", "r", "l", "d">>

\* C19 (HTML reduction), amended: as above for the text inside script blocks
\* and inside style blocks that hold no opening script tag.
C19_HtmlReductionAmended ==
    last.op = "extractTextFromHTML" =>
        /\ Count(last.value, "<") = 0 /\ Count(last.value, ">") = 0
        /\ OnlyInside(last.arg, {b \in Blocks(last.arg, 1) : ~HoldsScriptTag(last.arg, b)})
               => Count(last.value, "x") = 0
        /\ last.arg = <<ScenarioHtml>> =>
               last.value = <<"H", "e", "l", "l", "o", " ", "&", " ", "W", "o", "r", "l", "d">>

\* a page of a script block with a text and an empty style block, the tags
\* written in both cases, was reduced to nothing
C19_Witness ==
    /\ last.op = "extractTextFromHTML"
    /\ last.arg = <<ScriptOpen, <<"x">>, ScriptClose, StyleOpen, StyleClose>>
    /\ last.value = <<>>

\* a text with every occurrence of the six entities replaced by its character,
\* reading from left to right, and everything else kept
RECURSIVE EachEntityDecoded(_)
EachEntityDecoded(s) ==
    LET here == {e \in EntityNames : At(s, 1, e)}
        e    == CHOOSE x \in here : TRUE
    IN  IF s = <<>> THEN <<>>
        ELSE IF here # {}
             THEN EntityValue(e) \o EachEntityDecoded(From(s, Len(e) + 1))
             ELSE <<Head(s)>> \o EachEntityDecoded(Tail(s))

\* C20 (entity decoding): decodeHTMLEntities replaces every occurrence of
\* &amp; &lt; &gt; &quot; &#39; &nbsp; by its character, whatever precedes it,
\* and leaves every other entity and character as it is.
C20_EntityDecoding ==
    last.op = "decodeHTMLEntities" =>
        last.value = EachEntityDecoded(Concat(last.arg))

\* C21 (white space normal form): the text extractTextFromHTML returns neither
\* starts nor ends with white space and has no two white space characters in a
\* row, removed tags and decoded &nbsp; entities included.
C21_WhitespaceNormalForm ==
    last.op = "extractTextFromHTML" =>
        LET out == last.value
        IN  /\ out # <<>> => (~IsSpace(out[1]) /\ ~IsSpace(out[Len(out)]))
            /\ \A i \in 1..(Len(out) - 1) : ~(IsSpace(out[i]) /\ IsSpace(out[i + 1]))

\* texts around a line break, a tag and an &nbsp; were joined by one space
C21_Witness ==
    /\ last.op = "extractTextFromHTML"
    /\ last.arg = <<<<"x">>, <<NL>>, <<"<", "p", ">">>, <<"&", "n", "b", "s", "p", ";">>, <<"x">>>>
    /\ last.value = <<"x", " ", "x">>

\* C22 (extraction failure): the step in which the request of extract fails
\* ends the extract-content call without another request, the handler answers
\* {success: false, error} with the message of the error, and the context, the
\* transcript and the sendMessage calls are left as they were.
C22_ExtractionFailure ==
    [][(last'.op = "extract-content" /\ ~last'.ok) =>
          /\ Len(extracting') = Len(extracting) - 1
          /\ last'.value = FetchError
          /\ websiteContext' = websiteContext
          /\ chatHistory' = chatHistory
          /\ calls' = calls]_vars

\* an extraction failed with a context set, an exchange stored and a call in
\* flight
C22_Witness ==
    /\ last.op = "extract-content" /\ ~last.ok
    /\ websiteContext # <<>>
    /\ Len(chatHistory) >= 2
    /\ \E c \in CallIds : InFlight(c)

\* C30 (failure propagation): the chat-message and extract-content handlers
\* always answer: a sendMessage call that stored a reply answers {success: true,
\* response} with that reply, a call that threw answers {success: false, error}
\* with the message thrown, and an extract-content call answers {success: true,
\* content} with the context it set or {success: false, error} with the message.
C30_FailurePropagation ==
    [][/\ \A c \in CallIds :
             Completes(c) =>
                 /\ last'.op = "sendMessage" /\ last'.call = c
                 /\ IF Len(chatHistory') = Len(chatHistory) + 1
                    THEN /\ last'.ok
                         /\ chatHistory'[Len(chatHistory')].role = "assistant"
                         /\ last'.value = chatHistory'[Len(chatHistory')].content
                    ELSE /\ ~last'.ok
                         /\ last'.value # <<>>
                         /\ \/ ContainsText(last'.value, last'.lastError)
                            \/ last'.value = handleError(last'.lastError, calls[c].attempt).message
       /\ Len(extracting') < Len(extracting) =>
             /\ last'.op = "extract-content"
             /\ IF last'.ok THEN websiteContext' = last'.value
                ELSE last'.value # <<>> /\ websiteContext' = websiteContext]_vars

\* a call threw after a retry while another call was in flight
C30_Witness ==
    /\ SendFailed
    /\ Attempts(last.events) >= 2
    /\ \E c \in CallIds : InFlight(c)

\* the text extracted from the page of a URL
TextOf(url) == extractTextFromHTML(PageHtml(url))

\* C23 (context of the page requested last): once the extractions requested
\* have completed and the one requested last has succeeded, the context is the
\* text of the page that one was for.
C23_LatestPageContext ==
    (extracting = <<>> /\ lastRequested.outcome = "ok") =>
        websiteContext = TextOf(lastRequested.url)

\* C24 (extraction deduplication): no two of the requests in flight are for
\* the same URL.
C24_NoDuplicateExtraction ==
    \A i, j \in 1..Len(extracting) : extracting[i] = extracting[j] => i = j

\* a did-finish-load for the older of two pages being extracted was skipped
C24_Witness ==
    /\ Len(extracting) = 2
    /\ webviewUrl = extracting[1]
    /\ shown = Shown("autoExtractContent", <<>>)

\* C25 (send gating): a chat message is forwarded to the backend only when no
\* handleLoadUrl is waiting for an extraction of its URL to succeed.
C25_SendGating == [][nextCall' = nextCall + 1 => pendingLoad = ""]_vars

\* C26 (the renderer and the backend agree): when a call settles and the
\* renderer shows an error, the transcript holds no entry of the call; when the
\* call stored its reply, the renderer shows that reply.
C26_OutcomeAgreement ==
    [][\A c \in CallIds :
           Completes(c) =>
               /\ shown'.msgs[1].role = "system" =>
                      \A i \in 1..Len(chatHistory') : chatHistory'[i].by # c
               /\ Len(chatHistory') = Len(chatHistory) + 1 =>
                      shown'.msgs =
                          <<Message("assistant", chatHistory'[Len(chatHistory')].content)>>]_vars

\* C27 (placeholder): in the step a call settles its 'Thinking...' element is
\* gone and exactly one message, the reply or a system error, is appended; the
\* element of a call is shown only while the call is in flight, and it is
\* there when the call is sent.
C27_PlaceholderReplaced ==
    [][/\ \A c \in CallIds :
             Completes(c) =>
                 /\ c \notin loading'
                 /\ Len(shown'.msgs) = 1
                 /\ shown'.msgs[1] # Thinking
                 /\ \/ shown'.msgs[1] = Message("assistant", last'.value)
                    \/ shown'.msgs[1].role = "system"
       /\ \A c \in loading' : calls'[c].pc \in {"awaiting", "backoff"}
       /\ nextCall' = nextCall + 1 => nextCall' \in loading']_vars

\* a call settled and lost its placeholder while the placeholder of another
\* call stays
C27_Witness ==
    /\ last.op = "sendMessage"
    /\ shown.by = "handleSendMessage"
    /\ last.call \notin loading
    /\ loading # {}

C29_InFlightMarkers ==
    extractingUrls = {extracting[i] : i \in 1..Len(extracting)}

\* the request for one page failed and its marker is gone while the other
\* page is still being extracted
C29_Witness ==
    /\ last.op = "extract-content" /\ ~last.ok
    /\ Len(extracting) = 1
    /\ last.arg[1] \notin extractingUrls
    /\ extracting[1] \in extractingUrls

\* t starts with s
IsPrefix(s, t) == Len(s) <= Len(t) /\ SubSeq(t, 1, Len(s)) = s

\* C31 (frame of sendMessage): with one operation at a time, no step of a
\* sendMessage call, from its start to its return or throw, changes the
\* context, and the transcript the call found is a prefix of the transcript
\* every one of its steps leaves.
C31_SendFrame ==
    [][\A c \in CallIds :
           calls'[c] # calls[c] =>
               /\ websiteContext' = websiteContext
               /\ IsPrefix(PreOf(c), chatHistory')]_vars

\* a call failed after a retry with a context set and an exchange stored
\* before it
C31_Witness ==
    /\ SendFailed
    /\ Attempts(last.events) >= 2
    /\ websiteContext # <<>>
    /\ Len(chatHistory) = 2

\* C32 (transcript cleared with the context): a step that changes the context
\* empties the transcript, a step that sets the context to the text it already
\* has empties the transcript as well, and so does every extract-content
\* request that succeeds.
C32_ClearedOnEveryContextSet ==
    [][/\ websiteContext' # websiteContext => chatHistory' = <<>>
       /\ (SetsContext' /\ ContextSet' = websiteContext) =>
              (chatHistory' = <<>> /\ websiteContext' = websiteContext)
       /\ (last'.op = "extract-content" /\ last'.ok) => chatHistory' = <<>>]_vars

\* an extraction set the context to the text a call in flight had started
\* with, after an exchange had been stored
C32_Witness ==
    /\ last.op = "extract-content" /\ last.ok
    /\ websiteContext = last.value
    /\ chatHistory = <<>>
    /\ \E c \in CallIds :
           /\ InFlight(c) /\ calls[c].stale
           /\ calls[c].preCtx = websiteContext
           /\ Len(calls[c].pre) = 2

\* the prompt of the messages sendMessage collects when call c starts
SnapshotPrompt(c) ==
    buildPrompt(BuildMessages(calls[c].preCtx,
                              PushUser(calls[c].pre, c, calls[c].userMessage)))

\* C33 (one prompt per call): the attempt a call makes after a backoff wait
\* sends the prompt of the attempt before it, and the prompt of a call in
\* flight is the one built from the context and the transcript the call
\* started with, whatever ran in between.
C33_SamePromptOnRetry ==
    [][\A c \in CallIds :
           /\ (calls[c].pc = "backoff" /\ calls'[c].pc = "awaiting") =>
                  calls'[c].prompt = calls[c].prompt
           /\ calls'[c].pc \in {"awaiting", "backoff"} =>
                  calls'[c].prompt = SnapshotPrompt(c)']_vars

\* a call makes its third attempt after the context was replaced and the reply
\* of another call was stored during its waits
C33_Witness ==
    \E c \in CallIds :
        /\ calls[c].pc = "awaiting"
        /\ calls[c].attempt = 2
        /\ calls[c].stale
        /\ websiteContext # calls[c].preCtx
        /\ chatHistory # <<>>
        /\ chatHistory[Len(chatHistory)].by # c

\* C34 (line breaks): the text formatResponse returns has no three line breaks
\* in a row, the blank lines inserted after sentence ends included.
C34_NoTripleLineBreak ==
    last.op = "formatResponse" =>
        \A i \in 1..Len(last.value) : RunLen(last.value, i, {NL}) < 3

\* a blank line was inserted after a sentence end that a line break followed
C34_Witness ==
    /\ last.op = "formatResponse"
    /\ last.arg = <<<<"a", ".", NL, "A">>>>
    /\ last.value = <<"a", ".", NL, NL, "A">>

\* the positions of s at which a line begins with one of the markers and a
\* space, followed by a character that is not white space
MarkedLines(s, markers) ==
    {i \in 1..Len(s) :
        /\ LineStartAt(s, i)
        /\ s[i] \in markers
        /\ i + 2 <= Len(s)
        /\ s[i + 1] = " "
        /\ ~IsSpace(s[i + 2])}

\* every asterisk of s is the marker of a bullet line
OnlyBulletStars(s) ==
    \A i \in 1..Len(s) : s[i] = Star => i \in MarkedLines(s, {Star})

\* C35 (bullet normalization): for a reply whose asterisks are all bullet
\* markers, the text formatResponse returns has a line that begins with the
\* bullet and a space for every line of the reply that begins with an asterisk
\* or a hyphen and a space.
C35_BulletNormalization ==
    (last.op = "formatResponse" /\ OnlyBulletStars(last.arg[1])) =>
        Cardinality(MarkedLines(last.value, {Bullet}))
            >= Cardinality(MarkedLines(last.arg[1], {Star, "-"}))

\* C37 (one pass): when a text begins with an entity of the table, the result
\* of decodeHTMLEntities is the character of that entity followed by the
\* decoding of the rest: the character produced is not read again with what
\* follows it.
C37_SinglePass ==
    (/\ last.op = "decodeHTMLEntities"
     /\ last.arg # <<>>
     /\ Head(last.arg) \in EntityNames) =>
        last.value = EntityValue(Head(last.arg))
                         \o decodeHTMLEntities(Concat(Tail(last.arg)))

\* '&amp;lt;' gave '&lt;', which a second call would decode to '<'
C37_Witness ==
    /\ last.op = "decodeHTMLEntities"
    /\ last.arg = <<<<"&", "a", "m", "p", ";">>, <<"l", "t", ";">>>>
    /\ last.value = <<"&", "l", "t", ";">>
    /\ decodeHTMLEntities(last.value) = <<"<">>

\* the escaped forms of the characters & < >
Escapes == {<<"&", "a", "m", "p", ";">>, <<"&", "l", "t", ";">>, <<"&", "g", "t", ";">>}

\* C36 (escaping in the chat view): the HTML formatMessageToHTML returns holds
\* no < and no > of the message, every & in it begins one of &amp; &lt; &gt;,
\* and there is one such escape for every & < > of the message; the tags of the
\* HTML are those the formatter writes.
C36_HtmlEscaping ==
    last.op = "formatMessageToHTML" =>
        LET text == last.arg[1]
            html == last.value
            escaped == EscapeHtml(text)
        IN  /\ \A i \in 1..Len(html) :
                   /\ html[i] \notin {"<", ">"}
                   /\ html[i] = "&" => \E e \in Escapes : At(html, i, e)
                   /\ \/ html[i] \in FormatterTags \cup {Bullet, " ", "."}
                      \/ \E j \in 1..Len(escaped) : escaped[j] = html[i]
            /\ Cardinality({i \in 1..Len(html) : html[i] = "&"})
                   = Cardinality({i \in 1..Len(text) : text[i] \in {"&", "<", ">"}})

\* a message with a tag inside emphasis was shown with the tag escaped and the
\* emphasis made by the formatter
C36_Witness ==
    /\ last.op = "formatMessageToHTML"
    /\ last.arg = <<<<Star, "<", ">", Star>>>>
    /\ last.value = <<DivOpen, EmOpen, "&", "l", "t", ";", "&", "g", "t", ";", EmClose,
                       DivClose>>

====
